---- MODULE Spec2Model ----
(***************************************************************************)
(* A model of src/main.cpp: a terminal monitor that polls the NVML GPU     *)
(* management library.  GPUDevice holds one device's snapshot,             *)
(* DeviceManager owns the NVML subsystem and the devices, main() runs the  *)
(* render / sleep / refresh loop.  The NVML library is the environment:    *)
(* every call may succeed or fail, whatever happened before.               *)
(***************************************************************************)
EXTENDS Integers, Sequences, FiniteSets

(***************************************************************************)
(* Bounds of the model.                                                    *)
(***************************************************************************)
\* the largest device count the provider reports
MaxDevices == 2
\* the wall clock shows a second in 0..MaxClock when print reads it
MaxClock == 1

(***************************************************************************)
(* Program constants.                                                      *)
(***************************************************************************)
NVML_SUCCESS == 0
NVML_ERROR_NOT_SUPPORTED == 3
NVML_ERROR_NO_PERMISSION == 4
NVML_ERROR_DRIVER_NOT_LOADED == 9
NVML_ERROR_LIBRARY_NOT_FOUND == 12
NVML_ERROR_UNKNOWN == 999
NVML_DRIVER_WDDM == 0
NVML_DRIVER_WDM == 1
GPU_NAME_TEXT_FIELD_SIZE == 22
\* the divisor of power /= 1000
MILLIWATTS_PER_WATT == 1000
\* print divides the byte counts by (1024*1024)
KIBI == 1024

(***************************************************************************)
(* Machine words.  The model checker's integers end at 2^31 - 1, below     *)
(* unsigned(-1) and below the byte counts of a GPU's memory, so an         *)
(* unsigned (32 bits) is kept as two 16-bit digits <<high, low>> and an    *)
(* unsigned long long (64 bits) as four, most significant first.           *)
(***************************************************************************)
Digit == 256 * 256
HalfDigit == 128 * 256

\* the unsigned with value n, for n below 2^16
U32(n) == <<0, n>>
\* unsigned(-1) = 2^32 - 1, what the code stores for an unavailable fan speed or power
UNSIGNED_MINUS_ONE == <<Digit - 1, Digit - 1>>

\* x / d for a word x and a divisor d of at most 2^15: long division,
\* digit by digit; carry is the remainder handed down from the higher digits
RECURSIVE DivFrom(_, _, _, _)
DivFrom(x, d, k, carry) ==
  IF k > Len(x) THEN <<>>
  ELSE LET cur == carry * Digit + x[k]
       IN  <<cur \div d>> \o DivFrom(x, d, k + 1, cur % d)
Div(x, d) == DivFrom(x, d, 1, 0)

\* x / (1024*1024) for an unsigned long long
DivMebi(x) == Div(Div(x, KIBI), KIBI)

\* what printf's %d shows for a word: its low 32 bits read as an int
FormatD(x) ==
  LET high == x[Len(x) - 1]
      low == x[Len(x)]
  IN  IF high >= HalfDigit THEN (high - Digit) * Digit + low ELSE high * Digit + low

(***************************************************************************)
(* The provider's possible answers.                                        *)
(***************************************************************************)
\* what nvmlInit may return
InitOutcomes == {NVML_SUCCESS, NVML_ERROR_DRIVER_NOT_LOADED, NVML_ERROR_NO_PERMISSION,
                 NVML_ERROR_UNKNOWN, NVML_ERROR_LIBRARY_NOT_FOUND}
\* what the two system-wide queries (driver version, device count) may return
Results == {NVML_SUCCESS, NVML_ERROR_NOT_SUPPORTED, NVML_ERROR_UNKNOWN}
\* what a query about one device may return: the lookups and the required
\* metrics fail with NVML_ERROR_UNKNOWN, fan speed and power usage with
\* NVML_ERROR_NOT_SUPPORTED
Required == {"memory", "temperature", "utilization"}
Optional == {"fan", "power"}
RequiredResults == {NVML_SUCCESS, NVML_ERROR_UNKNOWN}
OptionalResults == {NVML_SUCCESS, NVML_ERROR_NOT_SUPPORTED}
\* the driver version string
Versions == {"535.54"}
\* (current, pending) driver models
DriverModels == {<<NVML_DRIVER_WDDM, NVML_DRIVER_WDDM>>, <<NVML_DRIVER_WDM, NVML_DRIVER_WDDM>>}
\* what a function that flows off its end without a return statement may
\* hand to its caller: zero or some other value
FallOffValues == {0, 1}

\* 2147483648 (2^31) and 8589934592 (2^33) bytes
Bytes2G == <<0, 0, HalfDigit, 0>>
Bytes8G == <<0, 2, 0, 0>>
\* 1048575 (2^20 - 1), 1048576 (2^20) and 4294967296 (2^32) bytes
BytesBelow1M == <<0, 0, 15, Digit - 1>>
Bytes1M == <<0, 0, 16, 0>>
Bytes4G == <<0, 1, 0, 0>>
\* 2251799813685248 (2^51) bytes: the least count whose mebibytes exceed an int
Bytes2P == <<8, 0, 0, 0>>

\* One reading of a device's metrics: fan speed in percent, memory in bytes,
\* power in milliwatts, temperature, utilization.  The program as a whole is
\* run against a device that reports ProgramSample under the name
\* ProgramName; single GPUDevice calls are run against all of Samples and Names.
ProgramSample ==
  [fan |-> U32(35), used |-> Bytes2G, total |-> Bytes8G, power |-> U32(15000),
   temp |-> U32(60), gpu |-> U32(10), mem |-> U32(5)]
Samples ==
  { ProgramSample,
    [fan |-> U32(100), used |-> BytesBelow1M, total |-> Bytes4G, power |-> U32(15999),
     temp |-> U32(61), gpu |-> U32(100), mem |-> U32(99)],
    [fan |-> U32(0), used |-> Bytes1M, total |-> Bytes1M, power |-> UNSIGNED_MINUS_ONE,
     temp |-> U32(0), gpu |-> U32(0), mem |-> U32(0)],
    [fan |-> U32(50), used |-> Bytes4G, total |-> Bytes8G, power |-> U32(999),
     temp |-> U32(45), gpu |-> U32(1), mem |-> U32(1)],
    [fan |-> U32(50), used |-> Bytes4G, total |-> Bytes8G, power |-> U32(1000),
     temp |-> U32(45), gpu |-> U32(1), mem |-> U32(1)],
    [fan |-> U32(50), used |-> Bytes8G, total |-> Bytes2P, power |-> U32(1000),
     temp |-> U32(45), gpu |-> U32(1), mem |-> U32(1)] }
\* device names: shorter than, exactly as long as, and longer than the name field
ProgramName == "GTX 1080"
Names == {ProgramName, "NVIDIA GeForce RTX 309", "NVIDIA GeForce RTX 3090"}

\* The provider's answers to one GPUDevice::update: a result per query and
\* the reading the successful queries deliver.
UpdateReplies(samples) ==
  [fan : OptionalResults, memory : RequiredResults, power : OptionalResults,
   temperature : RequiredResults, utilization : RequiredResults, sample : samples]

\* The provider's answers to the three lookups of GPUDevice::init.
InitReplies(names) ==
  [handle : RequiredResults, name : RequiredResults, text : names,
   model : OptionalResults, models : DriverModels]

\* The provider answers only what it is asked.  Of the answers to an update
\* that differ only in queries the update does not reach, or in the value
\* handed back by a path that returns the failing code, one is kept: the one
\* with NVML_SUCCESS and 0 there.
UpdateCourse(r, u) ==
  /\ r.memory # NVML_SUCCESS =>
       (r.power = NVML_SUCCESS /\ r.temperature = NVML_SUCCESS)
  /\ (r.memory # NVML_SUCCESS \/ r.temperature # NVML_SUCCESS) =>
       r.utilization = NVML_SUCCESS
  /\ (r.memory # NVML_SUCCESS \/ r.temperature # NVML_SUCCESS
        \/ r.utilization # NVML_SUCCESS) => u = 0

\* The same for an init: after a failed handle or name lookup nothing more is
\* asked, and a failed driver-model query delivers no driver models.
InitCourse(q, r, u) ==
  /\ q.handle # NVML_SUCCESS => q.name = NVML_SUCCESS
  /\ (q.handle # NVML_SUCCESS \/ q.name # NVML_SUCCESS) =>
       /\ q.model = NVML_SUCCESS
       /\ r.fan = NVML_SUCCESS /\ r.memory = NVML_SUCCESS /\ r.power = NVML_SUCCESS
       /\ r.temperature = NVML_SUCCESS /\ r.utilization = NVML_SUCCESS
       /\ u = 0
  /\ q.model # NVML_SUCCESS => q.models = <<NVML_DRIVER_WDDM, NVML_DRIVER_WDDM>>
  /\ UpdateCourse(r, u)

VARIABLES
  pc,            \* where main() is
  valid,         \* DeviceManager::valid
  numDevices,    \* DeviceManager::numDevices
  driverVersion, \* DeviceManager::driverVersion
  devices,       \* DeviceManager::devices; devices[k] is the device at position k-1
  i,             \* the position the running for-loop is at (init or update)
  shutdowns,     \* how many times nvmlShutdown has been called
  initResult,    \* what nvmlInit returned (Unset before the call)
  reported,      \* the count nvmlDeviceGetCount delivered (Unset if it did not)
  fatal,         \* the code of the latest failure checkError caught (0: none)
  call,          \* the latest GPUDevice::init or update: what it asked and got
  updateRet,     \* what the latest DeviceManager::update returned (Unset before)
  exitCode,      \* what main() returned (Unset while it runs)
  rendered,      \* the frames printed since the latest DeviceManager::update began
  snapshot       \* per device, how far its latest init or update got (history)

vars == <<pc, valid, numDevices, driverVersion, devices, i, shutdowns, initResult,
          reported, fatal, call, updateRet, exitCode, rendered, snapshot>>

(***************************************************************************)
(* GPUDevice                                                               *)
(***************************************************************************)
\* GPUDevice::GPUDevice: memset(this, 0, sizeof(GPUDevice))
GPUDevice ==
  [index |-> 0, name |-> "", fanSpeed |-> U32(0), power |-> U32(0),
   temperature |-> U32(0), utilization |-> [gpu |-> U32(0), memory |-> U32(0)],
   dmCurrent |-> 0, dmPending |-> 0,
   memory |-> [used |-> <<0, 0, 0, 0>>, total |-> <<0, 0, 0, 0>>], handle |-> 0]

\* the opaque handle the provider hands out for a device index (0 is no handle)
HandleOf(index) == index + 1

\* a name kept as the provider gave it, the padding loop left out
PadName_Unpadded(name) == name

\* the loop of GPUDevice::init that appends blanks to a name shorter than the field
RECURSIVE PadName(_)
PadName(name) ==
  IF Len(name) # GPU_NAME_TEXT_FIELD_SIZE /\ Len(name) < GPU_NAME_TEXT_FIELD_SIZE
  THEN PadName(name \o " ")
  ELSE name

\* the milliwatts kept as they are, the division left out
MilliwattsToWatts_Undivided(p) == p

\* power /= 1000 on an unsigned
MilliwattsToWatts(p) == Div(p, MILLIWATTS_PER_WATT)

\* checkError(err) with err # NVML_SUCCESS inside a GPUDevice method: the error
\* is printed, nvmlShutdown() is called and the method returns err.
DeviceFailure(d, err, issued) ==
  [dev |-> d, ret |-> err, released |-> 1, issued |-> issued, err |-> err]

\* an update without its checkError lines: every answer is stored, whatever
\* the result of the query
GPUDevice_update_Unchecked(d, r, u) ==
  [dev |-> [d EXCEPT !.fanSpeed = r.sample.fan,
                     !.memory = [used |-> r.sample.used, total |-> r.sample.total],
                     !.power = r.sample.power,
                     !.temperature = r.sample.temp,
                     !.utilization = [gpu |-> r.sample.gpu, memory |-> r.sample.mem]],
   ret |-> u, released |-> 0,
   issued |-> <<"fan", "memory", "power", "temperature", "utilization">>,
   err |-> NVML_SUCCESS]

\* GPUDevice::update with the provider answering r.  On the path where every
\* checkError passes, control reaches the closing brace of a function declared
\* to return int without a return statement: the caller reads u.
GPUDevice_update(d, r, u) ==
  LET d1 == IF r.fan # NVML_SUCCESS
            THEN [d EXCEPT !.fanSpeed = UNSIGNED_MINUS_ONE]
            ELSE [d EXCEPT !.fanSpeed = r.sample.fan]
      d2 == [d1 EXCEPT !.memory = [used |-> r.sample.used, total |-> r.sample.total]]
      d3 == IF r.power # NVML_SUCCESS
            THEN [d2 EXCEPT !.power = UNSIGNED_MINUS_ONE]
            ELSE [d2 EXCEPT !.power = MilliwattsToWatts(r.sample.power)]
      d4 == [d3 EXCEPT !.temperature = r.sample.temp]
      d5 == [d4 EXCEPT !.utilization = [gpu |-> r.sample.gpu, memory |-> r.sample.mem]]
  IN  IF r.memory # NVML_SUCCESS
      THEN DeviceFailure(d1, r.memory, <<"fan", "memory">>)
      ELSE IF r.temperature # NVML_SUCCESS
      THEN DeviceFailure(d3, r.temperature, <<"fan", "memory", "power", "temperature">>)
      ELSE IF r.utilization # NVML_SUCCESS
      THEN DeviceFailure(d4, r.utilization,
                         <<"fan", "memory", "power", "temperature", "utilization">>)
      ELSE [dev |-> d5, ret |-> u, released |-> 0,
            issued |-> <<"fan", "memory", "power", "temperature", "utilization">>,
            err |-> NVML_SUCCESS]

\* an init that puts checkError behind the driver-model query as well
GPUDevice_init_ModelChecked(d, q, r, u) ==
  LET d1 == [d EXCEPT !.handle = HandleOf(d.index)]
      d2 == [d1 EXCEPT !.name = PadName(q.text)]
      d3 == [d2 EXCEPT !.dmCurrent = q.models[1], !.dmPending = q.models[2]]
      up == GPUDevice_update(d3, r, u)
  IN  IF q.handle # NVML_SUCCESS
      THEN DeviceFailure(d, q.handle, <<"handle">>)
      ELSE IF q.name # NVML_SUCCESS
      THEN DeviceFailure(d1, q.name, <<"handle", "name">>)
      ELSE IF q.model # NVML_SUCCESS
      THEN DeviceFailure(d2, q.model, <<"handle", "name", "model">>)
      ELSE [up EXCEPT !.issued = <<"handle", "name", "model">> \o up.issued]

\* GPUDevice::init with the provider answering q to the lookups and r to the
\* update that ends it.
GPUDevice_init(d, q, r, u) ==
  LET d1 == [d EXCEPT !.handle = HandleOf(d.index)]
      d2 == [d1 EXCEPT !.name = PadName(q.text)]
      d3 == IF q.model # NVML_SUCCESS
            THEN d2
            ELSE [d2 EXCEPT !.dmCurrent = q.models[1], !.dmPending = q.models[2]]
      up == GPUDevice_update(d3, r, u)
  IN  IF q.handle # NVML_SUCCESS
      THEN DeviceFailure(d, q.handle, <<"handle">>)
      ELSE IF q.name # NVML_SUCCESS
      THEN DeviceFailure(d1, q.name, <<"handle", "name">>)
      ELSE [up EXCEPT !.issued = <<"handle", "name", "model">> \o up.issued]

\* the text GPUDevice::print builds for the fan speed and for the power
FanText(d) == IF d.fanSpeed # UNSIGNED_MINUS_ONE
              THEN <<" ", FormatD(d.fanSpeed), "%">> ELSE <<" N/A ">>
PowText(d) == IF d.power # UNSIGNED_MINUS_ONE
              THEN <<" ", FormatD(d.power), "W">> ELSE <<" N/A ">>

\* GPUDevice::print: what the line it writes shows at each place of the format
\* "| %2d %s  %s | %5d / %5d | %3dC %s   %s   %3d%% |"
GPUDevice_print(d) ==
  [index |-> d.index,
   name |-> d.name,
   driverMode |-> IF d.dmCurrent = NVML_DRIVER_WDDM THEN "WDDM" ELSE "TCC ",
   used |-> FormatD(DivMebi(d.memory.used)),
   total |-> FormatD(DivMebi(d.memory.total)),
   temperature |-> FormatD(d.temperature),
   fan |-> FanText(d),
   pow |-> PowText(d),
   util |-> FormatD(d.utilization.gpu)]

\* no value yet
Unset == 0 - 1
NoCall == [dev |-> Unset, kind |-> "none", issued |-> <<>>, missing |-> {},
           failed |-> {}, milliwatts |-> U32(0), text |-> "", ret |-> 0,
           err |-> NVML_SUCCESS]

\* How far the GPUDevice call that ended as res got: "complete" if its update
\* ran to its end, "partial" if the update was left at a failed query,
\* "unnamed" if init was left at the handle or the name lookup.  A device no
\* call was made on is "blank".
SnapshotAfter(res) ==
  IF res.err = NVML_SUCCESS THEN "complete"
  ELSE IF res.issued[Len(res.issued)] \in {"handle", "name"} THEN "unnamed"
  ELSE "partial"

\* whether a call whose outcome is res issued query q
Issued(res, q) == \E k \in DOMAIN res.issued : res.issued[k] = q

\* the record of a GPUDevice call on device dev that was answered r and ended
\* as res: the queries it issued, the optional ones among them that failed
\* (missing), the required ones among them that failed (failed), the
\* milliwatts a successful power query delivered, and the result
CallRecord(dev, kind, r, res) ==
  [dev |-> dev, kind |-> kind, issued |-> res.issued,
   missing |-> {q \in Optional : Issued(res, q) /\ r[q] # NVML_SUCCESS},
   failed |-> {q \in Required : Issued(res, q) /\ r[q] # NVML_SUCCESS},
   milliwatts |-> IF Issued(res, "power") /\ r.power = NVML_SUCCESS
                  THEN r.sample.power ELSE U32(0),
   text |-> "", ret |-> res.ret, err |-> res.err]

\* the record of a GPUDevice::init answered q and r: as above, with the name
\* a successful nvmlDeviceGetName delivered, and with the driver-model query
\* among the missing ones if it was issued and failed
InitCallRecord(dev, q, r, res) ==
  [CallRecord(dev, "init", r, res) EXCEPT
     !.text = IF Issued(res, "name") /\ q.name = NVML_SUCCESS THEN q.text ELSE "",
     !.missing = IF Issued(res, "model") /\ q.model # NVML_SUCCESS
                 THEN @ \cup {"model"} ELSE @]

(***************************************************************************)
(* DeviceManager                                                           *)
(***************************************************************************)
\* an isValid that answers true whatever valid holds
isValid_Always == TRUE

\* DeviceManager::isValid
isValid == valid

\* the member initializers of DeviceManager::DeviceManager, before init() runs
Init ==
  /\ pc = "init"
  /\ valid = FALSE
  /\ numDevices = 0
  /\ driverVersion = "Unknown"
  /\ devices = <<>>
  /\ snapshot = <<>>
  /\ i = 0
  /\ shutdowns = 0
  /\ initResult = Unset
  /\ reported = Unset
  /\ fatal = NVML_SUCCESS
  /\ call = NoCall
  /\ updateRet = Unset
  /\ exitCode = Unset
  /\ rendered = <<>>

\* DeviceManager::DeviceManager after init() returned ret: if (0 == init()) valid = 1
Constructed(ret) ==
  /\ valid' = IF 0 = ret THEN TRUE ELSE valid
  /\ pc' = "check"

\* checkError(err) with err # NVML_SUCCESS inside DeviceManager::init: the error
\* is printed, nvmlShutdown() is called, init returns err
ManagerFailure(err) ==
  /\ fatal' = err
  /\ shutdowns' = shutdowns + 1
  /\ Constructed(err)

\* DeviceManager::init up to the branch on nvmlInit's result.  The three named
\* errors print a message; they and every other error fall through to return 0.
NvmlInit ==
  /\ pc = "init"
  /\ \E err \in InitOutcomes :
       /\ initResult' = err
       /\ IF err = NVML_ERROR_DRIVER_NOT_LOADED THEN Constructed(0)
          ELSE IF err = NVML_ERROR_NO_PERMISSION THEN Constructed(0)
          ELSE IF err = NVML_ERROR_UNKNOWN THEN Constructed(0)
          ELSE IF err = NVML_SUCCESS THEN pc' = "version" /\ valid' = valid
          ELSE Constructed(0)
  /\ UNCHANGED <<numDevices, driverVersion, devices, i, shutdowns, reported, fatal,
                 call, updateRet, exitCode, rendered,
                 snapshot>>

\* nvmlSystemGetDriverVersion and its checkError
GetDriverVersion ==
  /\ pc = "version"
  /\ \E err \in Results, v \in Versions :
       IF err # NVML_SUCCESS
       THEN ManagerFailure(err) /\ UNCHANGED driverVersion
       ELSE /\ driverVersion' = v
            /\ pc' = "count"
            /\ UNCHANGED <<valid, fatal, shutdowns>>
  /\ UNCHANGED <<numDevices, devices, i, initResult, reported, call, updateRet,
                 exitCode, rendered,
                 snapshot>>

\* nvmlDeviceGetCount, its checkError, and devices.resize(numDevices)
GetDeviceCount ==
  /\ pc = "count"
  /\ \E err \in Results, n \in 0..MaxDevices :
       IF err # NVML_SUCCESS
       THEN ManagerFailure(err) /\ UNCHANGED <<numDevices, reported, devices, i,
                 snapshot>>
       ELSE /\ numDevices' = n
            /\ reported' = n
            /\ devices' = [k \in 1..n |-> GPUDevice]
            /\ snapshot' = [k \in 1..n |-> "blank"]
            /\ i' = 0
            /\ pc' = "devinit"
            /\ UNCHANGED <<valid, fatal, shutdowns>>
  /\ UNCHANGED <<driverVersion, initResult, call, updateRet, exitCode, rendered>>

\* a loop that leaves out the assignment to d.index
AssignIndex_Omitted(d, k) == d

\* d.index = i in the loop of DeviceManager::init
AssignIndex(d, k) == [d EXCEPT !.index = k]

\* one turn of the loop of DeviceManager::init: d.index = i; d.init(); the
\* result of d.init() is dropped
InitDevice ==
  /\ pc = "devinit"
  /\ i < numDevices
  /\ \E q \in InitReplies({ProgramName}), r \in UpdateReplies({ProgramSample}),
        u \in FallOffValues :
       LET res == GPUDevice_init(AssignIndex(devices[i + 1], i), q, r, u)
       IN  /\ InitCourse(q, r, u)
           /\ devices' = [devices EXCEPT ![i + 1] = res.dev]
           /\ snapshot' = [snapshot EXCEPT ![i + 1] = SnapshotAfter(res)]
           /\ shutdowns' = shutdowns + res.released
           /\ fatal' = IF res.err # NVML_SUCCESS THEN res.err ELSE fatal
           /\ call' = InitCallRecord(i, q, r, res)
  /\ i' = i + 1
  /\ UNCHANGED <<pc, valid, numDevices, driverVersion, initResult, reported,
                 updateRet, exitCode, rendered>>

\* the loop of DeviceManager::init is over: return 0
InitReturn ==
  /\ pc = "devinit"
  /\ ~(i < numDevices)
  /\ Constructed(0)
  /\ UNCHANGED <<numDevices, driverVersion, devices, i, shutdowns, initResult,
                 reported, fatal, call, updateRet, exitCode, rendered,
                 snapshot>>

\* what system_clock::now() may deliver when print reads it
Times == 0..MaxClock

\* ctime of the current time: the text is the second it shows
CTime(t) == <<"ctime", t>>

\* a print that also stamps the time on every device's line
DeviceManager_print_Stamped(t) ==
  [time |-> CTime(t), version |-> driverVersion, count |-> numDevices,
   rows |-> [k \in 1..Len(devices) |->
              [GPUDevice_print(devices[k]) EXCEPT !.name = <<@, CTime(t)>>]]]

\* DeviceManager::print at second t: the time line, the header with the driver
\* version and the device count, and one row per device (the rules and the
\* column titles are the same in every frame)
DeviceManager_print(t) ==
  [time |-> CTime(t), version |-> driverVersion, count |-> numDevices,
   rows |-> [k \in 1..Len(devices) |-> GPUDevice_print(devices[k])]]

\* a call of DeviceManager::print: the frame goes to standard output
DoPrint ==
  \E t \in Times :
    rendered' = IF Len(rendered) < 2
                THEN Append(rendered, DeviceManager_print(t))
                ELSE <<rendered[2], DeviceManager_print(t)>>

\* a call of DeviceManager::update begins
BeginUpdate ==
  /\ i' = 0
  /\ rendered' = <<>>

\* a loop that goes on to the next device whatever d.update() returned
BreaksLoop_Never(ret) == FALSE

\* what the loop of DeviceManager::update does after d.update() returned ret:
\* if (d.update()) { valid = 0; break; }
BreaksLoop(ret) == ret # 0

\* one turn of the loop of DeviceManager::update; on a break the function
\* goes on to return !valid
UpdateDevice ==
  /\ pc = "update"
  /\ i < Len(devices)
  /\ \E r \in UpdateReplies({ProgramSample}), u \in FallOffValues :
       LET res == GPUDevice_update(devices[i + 1], r, u)
       IN  /\ UpdateCourse(r, u)
           /\ devices' = [devices EXCEPT ![i + 1] = res.dev]
           /\ snapshot' = [snapshot EXCEPT ![i + 1] = SnapshotAfter(res)]
           /\ shutdowns' = shutdowns + res.released
           /\ fatal' = IF res.err # NVML_SUCCESS THEN res.err ELSE fatal
           /\ call' = CallRecord(i, "update", r, res)
           /\ valid' = IF res.ret # 0 THEN FALSE ELSE valid
           /\ IF BreaksLoop(res.ret)
              THEN /\ updateRet' = IF valid' THEN 0 ELSE 1
                   /\ pc' = "check"
                   /\ i' = i
              ELSE /\ i' = i + 1
                   /\ UNCHANGED <<pc, updateRet>>
  /\ UNCHANGED <<numDevices, driverVersion, initResult, reported, exitCode, rendered>>

\* the loop of DeviceManager::update is over: return !valid
UpdateReturn ==
  /\ pc = "update"
  /\ ~(i < Len(devices))
  /\ updateRet' = IF valid THEN 0 ELSE 1
  /\ pc' = "check"
  /\ UNCHANGED <<valid, numDevices, driverVersion, devices, i, shutdowns, initResult,
                 reported, fatal, call, exitCode, rendered,
                 snapshot>>

(***************************************************************************)
(* main                                                                    *)
(***************************************************************************)
\* while (devMan.isValid())
LoopCheck ==
  /\ pc = "check"
  /\ pc' = IF isValid THEN "cursor" ELSE "exit"
  /\ UNCHANGED <<valid, numDevices, driverVersion, devices, i, shutdowns, initResult,
                 reported, fatal, call, updateRet, exitCode, rendered,
                 snapshot>>

\* moveCursorTo(0, 0)
MoveCursor ==
  /\ pc = "cursor"
  /\ pc' = "print"
  /\ UNCHANGED <<valid, numDevices, driverVersion, devices, i, shutdowns, initResult,
                 reported, fatal, call, updateRet, exitCode, rendered,
                 snapshot>>

\* a print that refreshes the first device before it renders
PrintFrame_Refreshing ==
  /\ pc = "print"
  /\ DoPrint
  /\ pc' = "sleep"
  /\ \E r \in UpdateReplies({ProgramSample}), u \in FallOffValues :
       LET res == GPUDevice_update(devices[1], r, u)
       IN  /\ Len(devices) >= 1
           /\ devices' = [devices EXCEPT ![1] = res.dev]
           /\ call' = CallRecord(0, "update", r, res)
  /\ UNCHANGED <<valid, numDevices, driverVersion, i, shutdowns, initResult,
                 reported, fatal, updateRet, exitCode, snapshot>>

\* devMan.print()
PrintFrame ==
  /\ pc = "print"
  /\ DoPrint
  /\ pc' = "sleep"
  /\ UNCHANGED <<valid, numDevices, driverVersion, devices, i, shutdowns, initResult,
                 reported, fatal, call, updateRet, exitCode,
                 snapshot>>

\* sleep_for(500 ms)
Sleep ==
  /\ pc = "sleep"
  /\ pc' = "refresh"
  /\ UNCHANGED <<valid, numDevices, driverVersion, devices, i, shutdowns, initResult,
                 reported, fatal, call, updateRet, exitCode, rendered,
                 snapshot>>

\* devMan.update() is called
CallUpdate ==
  /\ pc = "refresh"
  /\ BeginUpdate
  /\ pc' = "update"
  /\ UNCHANGED <<valid, numDevices, driverVersion, devices, shutdowns, initResult,
                 reported, fatal, call, updateRet, exitCode,
                 snapshot>>

\* return 0, then DeviceManager::~DeviceManager: nvmlShutdown()
Return ==
  /\ pc = "exit"
  /\ exitCode' = 0
  /\ shutdowns' = shutdowns + 1
  /\ pc' = "done"
  /\ UNCHANGED <<valid, numDevices, driverVersion, devices, i, initResult, reported,
                 fatal, call, updateRet, rendered,
                 snapshot>>

Next ==
  \/ NvmlInit \/ GetDriverVersion \/ GetDeviceCount \/ InitDevice \/ InitReturn
  \/ LoopCheck \/ MoveCursor \/ PrintFrame \/ Sleep \/ CallUpdate
  \/ UpdateDevice \/ UpdateReturn \/ Return

Spec == Init /\ [][Next]_vars

(***************************************************************************)
(* Properties of the program (specification Spec).                         *)
(***************************************************************************)
\* the constructor of DeviceManager is still running
Constructing == pc \in {"init", "version", "count", "devinit"}
\* main() is inside an iteration of its loop
InLoop == pc \in {"cursor", "print", "sleep", "refresh", "update"}
\* the latest GPUDevice call got as far as its update and a required query failed there
RequiredFailed(c) ==
  /\ c.err # NVML_SUCCESS
  /\ c.issued # <<>>
  /\ c.issued[Len(c.issued)] \in Required

\* C1: DeviceManager::update refreshes the devices in index order, one per
\* turn of its loop, touching no other device; when a required query fails
\* for the device at position i, GPUDevice::update returns non-zero, valid
\* becomes false, DeviceManager::update returns non-zero and the loop is left,
\* so that no device behind position i is queried or modified in that cycle.
C1_RefreshStopsAtFirstFailure ==
  [][ (pc = "update" /\ i < Len(devices)) =>
        /\ call'.kind = "update" /\ call'.dev = i
        /\ \A k \in 1..Len(devices) : k # i + 1 => devices'[k] = devices[k]
        /\ pc' = "update" => i' = i + 1
        /\ RequiredFailed(call') =>
             /\ call'.ret # 0
             /\ ~valid'
             /\ updateRet' # 0
             /\ pc' = "check"
             /\ i' = i ]_vars

\* C1 witness: with two devices, the refresh of the first one failed on a
\* required query and DeviceManager::update has returned.
C1_Witness ==
  /\ pc = "check"
  /\ Len(devices) = 2
  /\ call.kind = "update" /\ call.dev = 0
  /\ RequiredFailed(call)
  /\ ~valid /\ updateRet = 1

\* C2: once the constructed registry's valid is false it stays false, and
\* main() starts no further iteration: no cursor move, print, sleep or update.
C2_ValidIsTerminalLatch ==
  [][ (~Constructing /\ ~valid) => (~valid' /\ ~InLoop') ]_vars

\* C2 witness: the loop has run, an update cleared valid, main() left the loop.
C2_Witness ==
  /\ pc = "exit"
  /\ ~valid
  /\ updateRet = 1

\* C3 (as claimed): right after construction valid is true exactly if
\* nvmlInit succeeded, and after a failed nvmlInit the loop runs no iteration.
C3_ValidIffInitSucceeded ==
  /\ (pc = "check" /\ updateRet = Unset) => (valid <=> initResult = NVML_SUCCESS)
  /\ (initResult # Unset /\ initResult # NVML_SUCCESS) => ~InLoop

\* C4 (as claimed): a GPUDevice::update whose required queries all succeed
\* stores the sentinel for each failed optional query, issues all five
\* queries, returns 0, and so leaves valid set.
C4_OptionalFailureIsSuccess ==
  (call.kind # "none" /\ Issued(call, "utilization") /\ call.err = NVML_SUCCESS) =>
    /\ "fan" \in call.missing => devices[call.dev + 1].fanSpeed = UNSIGNED_MINUS_ONE
    /\ "power" \in call.missing => devices[call.dev + 1].power = UNSIGNED_MINUS_ONE
    /\ \A q \in Required \cup Optional : Issued(call, q)
    /\ call.ret = 0
    /\ call.kind = "update" => valid

\* C5 (as claimed): when the process has ended, nvmlShutdown has been called
\* exactly once.
C5_ShutdownExactlyOnce ==
  pc = "done" => shutdowns = 1

\* C6 (as claimed): the exit status is the provider's error code if a fatal
\* error was detected, and 0 otherwise.
C6_ExitStatusIsErrorCode ==
  pc = "done" => exitCode = fatal

\* C7 (as claimed): after a failure of a non-optional provider call the
\* subsystem is released and the process stops: no device is initialized or
\* refreshed and nothing is rendered any more.
C7_FatalIsHardStop ==
  [][ fatal # NVML_SUCCESS =>
        /\ shutdowns >= 1
        /\ ~(InitDevice \/ PrintFrame \/ UpdateDevice) ]_vars

\* C8: once the constructor has enumerated the devices, the devices sequence
\* is as long as the count the provider reported and the device at position
\* k has index k, in every later state (whatever updates and prints follow).
C8_LengthAndIndexFixed ==
  (~Constructing /\ reported # Unset) =>
    /\ Len(devices) = reported
    /\ numDevices = reported
    /\ \A k \in 1..Len(devices) : devices[k].index = k - 1

\* C8 witness: two devices were enumerated, the loop ran, an update failed
\* and the process ended.
C8_Witness ==
  /\ pc = "done"
  /\ reported = 2
  /\ call.kind = "update"
  /\ call.err # NVML_SUCCESS

(***************************************************************************)
(* The registry used through its public methods.  The constructor runs as  *)
(* in the program; then print() and update() are called in any order, the  *)
(* caller asking for an update only while isValid().                       *)
(***************************************************************************)
\* a call of DeviceManager::print
CallPrint ==
  /\ pc = "check"
  /\ DoPrint
  /\ UNCHANGED <<pc, valid, numDevices, driverVersion, devices, i, shutdowns,
                 initResult, reported, fatal, call, updateRet, exitCode,
                 snapshot>>

\* a call of DeviceManager::update
CallUpdateWhileValid ==
  /\ pc = "check"
  /\ isValid
  /\ BeginUpdate
  /\ pc' = "update"
  /\ UNCHANGED <<valid, numDevices, driverVersion, devices, shutdowns, initResult,
                 reported, fatal, call, updateRet, exitCode,
                 snapshot>>

NextCalls ==
  \/ NvmlInit \/ GetDriverVersion \/ GetDeviceCount \/ InitDevice \/ InitReturn
  \/ CallPrint \/ CallUpdateWhileValid \/ UpdateDevice \/ UpdateReturn

SpecCalls == Init /\ [][NextCalls]_vars

\* C9 (as claimed): two prints with no update between them write the same
\* output, byte for byte.
C9_RenderIsPure ==
  Len(rendered) = 2 => rendered[1] = rendered[2]

\* C9 (amended): two prints with no update between them write the same
\* output but for the first line, which is the time of the call: the driver
\* version, the device count and every device's row are the same.
C9_RenderIsPureButForTime ==
  Len(rendered) = 2 =>
    /\ rendered[1].version = rendered[2].version
    /\ rendered[1].count = rendered[2].count
    /\ rendered[1].rows = rendered[2].rows

\* C9 witness: two devices were printed twice in a row, at different seconds.
C9_Witness ==
  /\ Len(rendered) = 2
  /\ Len(rendered[1].rows) = 2
  /\ rendered[1].time # rendered[2].time
  /\ updateRet # Unset

(***************************************************************************)
(* One GPUDevice used through its methods, against every name and reading  *)
(* of Names and Samples: init() once, then update() and print() in any     *)
(* order, for as long as no call has released the subsystem.               *)
(***************************************************************************)
InitDeviceCalls ==
  /\ pc = "device"
  /\ valid = FALSE
  /\ numDevices = 1
  /\ driverVersion = "Unknown"
  /\ devices = <<AssignIndex(GPUDevice, 0)>>
  /\ snapshot = <<"blank">>
  /\ i = 0
  /\ shutdowns = 0
  /\ initResult = NVML_SUCCESS
  /\ reported = 1
  /\ fatal = NVML_SUCCESS
  /\ call = NoCall
  /\ updateRet = Unset
  /\ exitCode = Unset
  /\ rendered = <<>>

\* what a GPUDevice call that ended as res, recorded as rec, leaves behind
AfterDeviceCall(rec, res) ==
  /\ devices' = <<res.dev>>
  /\ snapshot' = <<SnapshotAfter(res)>>
  /\ shutdowns' = shutdowns + res.released
  /\ fatal' = IF res.err # NVML_SUCCESS THEN res.err ELSE fatal
  /\ call' = rec
  /\ rendered' = <<>>
  /\ UNCHANGED <<pc, valid, numDevices, driverVersion, i, initResult, reported,
                 updateRet, exitCode>>

\* d.init()
DeviceInit ==
  /\ pc = "device"
  /\ call.kind = "none"
  /\ \E q \in InitReplies(Names), r \in UpdateReplies(Samples), u \in FallOffValues :
       LET res == GPUDevice_init(devices[1], q, r, u)
       IN  InitCourse(q, r, u) /\ AfterDeviceCall(InitCallRecord(0, q, r, res), res)

\* d.update()
DeviceUpdate ==
  /\ pc = "device"
  /\ call.kind # "none"
  /\ shutdowns = 0
  /\ \E r \in UpdateReplies(Samples), u \in FallOffValues :
       LET res == GPUDevice_update(devices[1], r, u)
       IN  UpdateCourse(r, u) /\ AfterDeviceCall(CallRecord(0, "update", r, res), res)

\* d.print()
DevicePrint ==
  /\ pc = "device"
  /\ rendered' = <<GPUDevice_print(devices[1])>>
  /\ UNCHANGED <<pc, valid, numDevices, driverVersion, devices, i, shutdowns,
                 initResult, reported, fatal, call, updateRet, exitCode,
                 snapshot>>

NextDevice == DeviceInit \/ DeviceUpdate \/ DevicePrint

SpecDevice == InitDeviceCalls /\ [][NextDevice]_vars

\* x * m + a for a word x and small numbers m and a, with one more digit than x
RECURSIVE TimesFrom(_, _, _, _)
TimesFrom(x, m, k, carry) ==
  IF k = 0 THEN <<carry>>
  ELSE LET cur == x[k] * m + carry
       IN  TimesFrom(x, m, k - 1, cur \div Digit) \o <<cur % Digit>>
TimesPlus(x, m, a) == TimesFrom(x, m, Len(x), a)

\* x < y for two words of the same length
RECURSIVE LessFrom(_, _, _)
LessFrom(x, y, k) ==
  IF k > Len(x) THEN FALSE
  ELSE IF x[k] # y[k] THEN x[k] < y[k]
  ELSE LessFrom(x, y, k + 1)
Less(x, y) == LessFrom(x, y, 1)

\* w is p divided by m, rounded toward zero: w * m <= p < w * m + m
IsQuotient(w, p, m) ==
  /\ ~Less(<<0>> \o p, TimesPlus(w, m, 0))
  /\ Less(<<0>> \o p, TimesPlus(w, m, m))

\* the latest GPUDevice call asked for the power usage and got it
PowerWasRead == Issued(call, "power") /\ "power" \notin call.missing

\* C10: after a power query that delivered p milliwatts the stored power is
\* p / 1000 rounded toward zero (15000 and 15999 both give 15), it is not
\* unsigned(-1), and print shows that number of watts, never N/A.
C10_PowerIsWholeWatts ==
  PowerWasRead =>
    LET d == devices[1]
        shown == PowText(d)
    IN  /\ IsQuotient(d.power, call.milliwatts, 1000)
        /\ call.milliwatts \in {U32(15000), U32(15999)} => d.power = U32(15)
        /\ d.power # UNSIGNED_MINUS_ONE
        /\ shown # <<" N/A ">>
        /\ Len(shown) = 3
        /\ shown[2] >= 0
        /\ <<shown[2] \div Digit, shown[2] % Digit>> = d.power
        /\ rendered # <<>> => rendered[1].pow = shown

\* C10 witness: 15999 milliwatts were read, stored as 15 and printed as 15W.
C10_Witness ==
  /\ PowerWasRead
  /\ call.milliwatts = U32(15999)
  /\ devices[1].power = U32(15)
  /\ rendered # <<>>
  /\ rendered[1].pow = <<" ", 15, "W">>

(***************************************************************************)
(* Properties of one GPUDevice (specification SpecDevice), continued.      *)
(***************************************************************************)
\* the number n that is shown is the byte count divided by 2^20, rounded
\* toward zero: n >= 0 and n * 2^20 <= bytes < n * 2^20 + 2^20
IsMebibytesOf(n, bytes) ==
  /\ n >= 0
  /\ LET w == <<0, 0, n \div Digit, n % Digit>>
         lower == TimesPlus(TimesPlus(w, KIBI, 0), KIBI, 0)
         upper == TimesPlus(TimesPlus(w, KIBI, 0), KIBI, KIBI * KIBI)
     IN  /\ ~Less(<<0, 0>> \o bytes, lower)
         /\ Less(<<0, 0>> \o bytes, upper)

\* C11 (as claimed): for every pair of byte counts the device holds,
\* GPUDevice::print shows used div 2^20 and total div 2^20; 2147483648 and
\* 8589934592 bytes are shown as 2048 / 8192.
C11_MemoryShownInMebibytes ==
  rendered # <<>> =>
    LET d == devices[1]
        row == rendered[1]
    IN  /\ IsMebibytesOf(row.used, d.memory.used)
        /\ IsMebibytesOf(row.total, d.memory.total)
        /\ (d.memory.used = Bytes2G /\ d.memory.total = Bytes8G) =>
             (row.used = 2048 /\ row.total = 8192)

\* k blanks
RECURSIVE Blanks(_)
Blanks(k) == IF k = 0 THEN "" ELSE " " \o Blanks(k - 1)

\* the latest GPUDevice call was an init whose name lookup succeeded (it went
\* on to the driver-model query)
NameWasRead == call.kind = "init" /\ Issued(call, "model")

\* C12: after a GPUDevice::init whose name lookup delivered n, the stored
\* name is n followed by blanks up to 22 characters when n is shorter than
\* 22, and n itself otherwise; and no update changes the stored name.
C12_NamePaddedOnce ==
  [][ /\ NameWasRead' =>
           LET n == call'.text
               stored == devices'[1].name
           IN  /\ Len(n) < 22 =>
                    /\ Len(stored) = 22
                    /\ stored = n \o Blanks(22 - Len(n))
               /\ Len(n) >= 22 => stored = n
      /\ call'.kind = "update" => devices'[1].name = devices[1].name ]_vars

\* C12 witness: a short name was read and padded, and an update has run since.
C12_Witness ==
  /\ call.kind = "update"
  /\ call.err = NVML_SUCCESS
  /\ devices[1].name = "GTX 1080              "
  /\ Len(devices[1].name) = 22

\* the order in which GPUDevice::update asks
QueryOrder == <<"fan", "memory", "power", "temperature", "utilization">>

\* the field of device d that query q writes
FieldOf(d, q) ==
  CASE q = "fan" -> d.fanSpeed
    [] q = "memory" -> d.memory
    [] q = "power" -> d.power
    [] q = "temperature" -> d.temperature
    [] q = "utilization" -> d.utilization

\* the queries the update inside the call recorded as c issued: all of an
\* update's, and those behind the three lookups of an init
UpdateQueries(c) ==
  IF c.kind = "init"
  THEN IF Len(c.issued) > 3 THEN SubSeq(c.issued, 4, Len(c.issued)) ELSE <<>>
  ELSE c.issued

\* C13: one GPUDevice::update asks fan speed, memory info, power usage,
\* temperature, utilization in this order, each at most once; it stops short
\* only at a required query that failed, a failed required query is the last
\* one asked, and the fields of the queries behind it keep their values.
C13_QueriesInOrderUntilFailure ==
  [][ (call'.kind = "update" \/ (call'.kind = "init" /\ Issued(call', "model"))) =>
        LET asked == UpdateQueries(call')
            n == Len(asked)
        IN  /\ n \in 1..5
            /\ asked = SubSeq(QueryOrder, 1, n)
            /\ n < 5 => asked[n] \in call'.failed
            /\ \A k \in 1..n :
                 asked[k] \in call'.failed =>
                   /\ k = n
                   /\ call'.ret # 0
                   /\ \A j \in (k + 1)..5 :
                        FieldOf(devices'[1], QueryOrder[j]) =
                          FieldOf(devices[1], QueryOrder[j]) ]_vars

\* C13 witness: after a complete update an update failed at the temperature
\* query: utilization was not asked and keeps the value of the earlier update.
C13_Witness ==
  /\ call.kind = "update"
  /\ call.issued = <<"fan", "memory", "power", "temperature">>
  /\ call.failed = {"temperature"}
  /\ devices[1].utilization.gpu = U32(100)
  /\ devices[1].fanSpeed = U32(35)

\* C16: when the driver-model query of GPUDevice::init fails, that failure
\* releases nothing, the driver-model fields keep the zeros of the
\* constructor, one update follows, and init returns what that update
\* returns; whenever the handle and the name were obtained, init returns
\* what its one update returns, whatever the driver-model query answered.
C16_DriverModelFailureIsNotFatal ==
  [][ (call.kind = "none" /\ call'.kind = "init" /\ Issued(call', "model")) =>
        LET asked == UpdateQueries(call')
            aborted == call'.failed # {}
        IN  /\ Len(asked) >= 1
            /\ asked = SubSeq(QueryOrder, 1, Len(asked))
            /\ IF aborted
               THEN /\ call'.err # NVML_SUCCESS
                    /\ call'.ret = call'.err
                    /\ call'.failed = {asked[Len(asked)]}
               ELSE /\ call'.err = NVML_SUCCESS
                    /\ call'.ret \in FallOffValues
                    /\ Len(asked) = 5
            /\ shutdowns' = shutdowns + (IF aborted THEN 1 ELSE 0)
            /\ "model" \in call'.missing =>
                 /\ devices'[1].dmCurrent = 0
                 /\ devices'[1].dmPending = 0
                 /\ snapshot'[1] \in {"complete", "partial"} ]_vars

\* C16 witness: an init whose driver-model query failed went through its
\* whole update, released nothing, and an update has been made since.
C16_Witness ==
  /\ call.kind = "init"
  /\ "model" \in call.missing
  /\ call.err = NVML_SUCCESS
  /\ Len(call.issued) = 8
  /\ shutdowns = 0
  /\ devices[1].dmCurrent = 0

(***************************************************************************)
(* Properties of the program (specification Spec), continued.              *)
(***************************************************************************)
\* C14 (as claimed): an iteration of main's loop is cursor reposition,
\* render, sleep, refreshAll, in this order and once each; valid is read only
\* where an iteration starts, so a started iteration runs through its
\* refreshAll; when a frame is rendered every device has a complete refresh
\* behind it (the one inside its init for the first frame), and no frame is
\* rendered after a refreshAll that failed.
C14_IterationOrder ==
  [][ /\ pc = "check" => pc' = IF valid THEN "cursor" ELSE "exit"
      /\ pc = "cursor" => pc' = "print"
      /\ pc = "print" => (pc' = "sleep" /\ rendered' # rendered)
      /\ pc = "sleep" => pc' = "refresh"
      /\ pc = "refresh" => pc' = "update"
      /\ pc = "update" => pc' \in {"update", "check"}
      /\ pc' = "exit" => pc = "check"
      /\ pc = "print" =>
           /\ \A k \in 1..Len(devices) : snapshot[k] = "complete"
           /\ updateRet \in {Unset, 0} ]_vars

\* The program as a process that keeps running: every provider call, every
\* printf and the sleep return, so main() always takes its next step.
SpecLive == Spec /\ WF_vars(Next)

\* C15 (as claimed): main() leaves its loop exactly where it reads valid as
\* false; a refresh of a device in which every required query succeeds does
\* not clear valid, so that the loop goes on as long as the required queries
\* succeed; and once a required query has failed in a refreshAll the process
\* comes to its end.
C15_ExitOnlyByInvalid ==
  /\ [][ /\ pc' = "exit" => (pc = "check" /\ ~valid)
         /\ (pc = "check" /\ ~valid) => pc' = "exit"
         /\ (pc = "update" /\ i < Len(devices) /\ call'.failed = {}) =>
              (valid' = valid /\ pc' = "update") ]_vars
  /\ (pc = "check" /\ call.kind = "update" /\ call.failed # {}) ~> (pc = "done")

\* a step in which a frame was written
Rendering == rendered' # rendered /\ rendered' # <<>>

\* C17: DeviceManager::print and the GPUDevice::print calls inside it ask the
\* provider nothing and leave valid, driverVersion, the device count and
\* every field of every device as they were.
C17_RenderingChangesNothing ==
  [][ Rendering =>
        /\ valid' = valid
        /\ driverVersion' = driverVersion
        /\ numDevices' = numDevices
        /\ devices' = devices
        /\ call' = call
        /\ shutdowns' = shutdowns
        /\ fatal' = fatal
        /\ snapshot' = snapshot ]_vars

\* C17 witness: a frame with two devices was rendered in an iteration that
\* follows a refreshAll, and the iteration goes on.
C17_Witness ==
  /\ pc = "sleep"
  /\ rendered # <<>>
  /\ Len(rendered[Len(rendered)].rows) = 2
  /\ updateRet = 0
  /\ valid

\* C18 (as claimed): once nvmlShutdown has been called, no GPUDevice::init
\* and no GPUDevice::update runs any more, so that no handle lookup, name
\* query, driver-model query or metric query follows a shutdown.
C18_NoQueryAfterShutdown ==
  [][ shutdowns >= 1 => ~(InitDevice \/ UpdateDevice) ]_vars

\* C19 (as claimed): where DeviceManager::print is about to run, every
\* device has its handle and its name, and the latest call made on it ran
\* its update to the end, so that the five metrics shown come from one
\* update; no device whose init or latest update was left at a failed query
\* is rendered.
C19_FramesShowCompleteSnapshots ==
  pc = "print" =>
    \A k \in 1..Len(devices) :
      /\ devices[k].handle = HandleOf(k - 1)
      /\ devices[k].name # ""
      /\ snapshot[k] = "complete"

====
